---- MODULE Spec2Model ----
(***************************************************************************)
(* A model of the two data-transformation components of cardionet:         *)
(*   - Logs.scripts_stream_process (src/core/logs.py), the streaming line  *)
(*     classifier that forwards process output to a log and collects       *)
(*     script names;                                                       *)
(*   - NmapXMLParser (src/core/nmap_parsers.py), which parses an nmap XML  *)
(*     document and renders a text report, and its caller                  *)
(*     ExportModal._export_parsed_xml (src/ui/modals.py);                  *)
(*   - CardioNetApp (src/cardionet.py), as far as the output file of a     *)
(*     scan and the export modal are concerned.                            *)
(*                                                                         *)
(* Text is modelled as a sequence of lexemes (strings): a lexeme is a      *)
(* whitespace character, a digit, or an indivisible word.  Python's        *)
(* strip(), startswith() and int() are computed on these sequences.        *)
(***************************************************************************)
EXTENDS Integers, Sequences, FiniteSets, TLC

VARIABLES
    \* ---- the external process started by scripts_stream_process
    stream,        \* the lines the process writes to its stdout, in order
    proc,          \* "none" | "running" | "closed" (stdout closed) | "exited"
    returncode,    \* process.returncode once proc = "exited"
    \* ---- the coroutine Logs.scripts_stream_process
    pc,            \* its position (an await point or an end state)
    pos,           \* number of lines it has read from process.stdout
    line,          \* local variable `line`
    last_line,     \* local variable `last_line`
    script_names,  \* local variable `script_names`
    sink,          \* what self.write() has put into the RichLog, in order
    returned,      \* <<>> until the coroutine returns; then <<script_names>>
    \* ---- NmapXMLParser and its caller
    xml_file,      \* self.xml_file, the path given to the constructor
    xml_doc,       \* the content of that file
    pstate,        \* "none" | "ready" (constructed) | "failed" (it raised)
    error,         \* the exception the constructor raised, or "none"
    root,          \* self.root
    hosts,         \* self.hosts
    clock,         \* the wall clock, in half seconds
    report,        \* outcome of the last generate_report call
    previous,      \* outcome of the generate_report call before it
    file,          \* content of the output file written last
    \* ---- ExportModal
    export,        \* outcome of the last _export_parsed_xml call
    \* ---- CardioNetApp
    target,        \* self.scan.target.value
    output,        \* self.scan.output.value
    cmd,           \* self.cmd_preview.cmd, as split(" ") gives it
    output_file,   \* self.output_file
    files,         \* the output files that scans have written
    export_modal,  \* <<>>, or <<output_file>> of the ExportModal on screen
    notice         \* the last notification shown

streamVars == <<stream, proc, returncode, pc, pos, line, last_line,
                script_names, sink, returned>>

reportVars == <<xml_file, xml_doc, pstate, error, root, hosts, clock, report,
                previous, file, export>>

appVars == <<target, output, cmd, output_file, files, export_modal, notice>>

vars == <<streamVars, reportVars, appVars>>

----------------------------------------------------------------------------
(* Text helpers *)

Whitespace == {" ", "\t", "\n", "\r"}

RECURSIVE LStrip(_)
LStrip(s) ==
    IF s # <<>> /\ Head(s) \in Whitespace THEN LStrip(Tail(s)) ELSE s

RECURSIVE RStrip(_)
RStrip(s) ==
    IF s # <<>> /\ s[Len(s)] \in Whitespace
    THEN RStrip(SubSeq(s, 1, Len(s) - 1))
    ELSE s

\* str.strip(): drop leading and trailing whitespace
Strip(s) == RStrip(LStrip(s))

\* str.startswith(prefix)
StartsWith(s, prefix) ==
    Len(s) >= Len(prefix) /\ SubSeq(s, 1, Len(prefix)) = prefix

\* the literal "Categories:" of the header test
CategoriesMarker == <<"Categories:">>

\* the literal 25 of the header test
NameLimit == 25

\* f"\nProcess finished with code {process.returncode}"
CompletionMarker(code) ==
    <<"\n", "Process finished with code ", ToString(code)>>

IsCompletionMarker(entry) ==
    StartsWith(entry, <<"\n", "Process finished with code ">>)

----------------------------------------------------------------------------
(* Inputs of the stream classifier *)

MaxFree == 3       \* free-form lines that follow the header pairs
MaxOver == 2       \* header pairs beyond the limit that a stream may hold

NameLine(i) ==
    << <<"alpha", "\n">>, <<"beta", "\n">>, <<"gamma", "\n">> >>[(i % 3) + 1]

CategoriesLine == <<"Categories:", " ", "x", "\n">>

\* n qualifying (name line, "Categories:" line) pairs
HeaderPairs(n) ==
    [i \in 1..(2 * n) |->
        IF i % 2 = 1 THEN NameLine((i - 1) \div 2) ELSE CategoriesLine]

FreeLines ==
    { <<"alpha", "\n">>,
      <<"\n">>,
      CategoriesLine,
      <<" ", " ", "Categories:", " ", "y", "\n">> }

FreeBlocks == UNION { [1..k -> FreeLines] : k \in 0..MaxFree }

PairCounts == {0} \cup ((NameLimit - 1)..(NameLimit + MaxOver))

Streams == { HeaderPairs(n) \o f : n \in PairCounts, f \in FreeBlocks }

ExitCodes == {0, 1}

\* return code of a process ended by a signal: -SIGTERM
SignalCodes == {-15}

----------------------------------------------------------------------------
(* Logs.scripts_stream_process *)

StreamInit ==
    /\ stream = <<>>
    /\ proc = "none"
    /\ returncode = 0
    /\ pc = "idle"
    /\ pos = 0
    /\ line = <<>>
    /\ last_line = <<>>
    /\ script_names = <<>>
    /\ sink = <<>>
    /\ returned = <<>>

\* create_subprocess_exec, script_names = [], last_line = ""
Start ==
    /\ pc = "idle"
    /\ \E s \in Streams : stream' = s
    /\ proc' = "running"
    /\ script_names' = <<>>
    /\ last_line' = <<>>
    /\ pc' = "read"
    /\ UNCHANGED <<returncode, pos, line, sink, returned>>
    /\ UNCHANGED <<reportVars, appVars>>

\* ReadLine with the write guarded by `if line:` (empty lines not forwarded)
ReadLine_SkipsEmpty ==
    /\ pc = "read"
    /\ pos < Len(stream)
    /\ pos' = pos + 1
    /\ line' = Strip(stream[pos + 1])
    /\ sink' = IF line' # <<>> THEN Append(sink, line') ELSE sink
    /\ pc' = "yield1"
    /\ UNCHANGED <<stream, proc, returncode, last_line, script_names, returned>>
    /\ UNCHANGED <<reportVars, appVars>>

\* async for raw_line in process.stdout: line = decode().strip(); write(line);
\* await asyncio.sleep(0)
ReadLine ==
    /\ pc = "read"
    /\ pos < Len(stream)
    /\ pos' = pos + 1
    /\ line' = Strip(stream[pos + 1])
    /\ sink' = Append(sink, line')
    /\ pc' = "yield1"
    /\ UNCHANGED <<stream, proc, returncode, last_line, script_names, returned>>
    /\ UNCHANGED <<reportVars, appVars>>

\* Classify with the lookback updated only by non-empty lines
Classify_KeepsNonEmptyLookback ==
    /\ pc = "yield1"
    /\ script_names' =
          IF /\ last_line # <<>>
             /\ StartsWith(line, CategoriesMarker)
             /\ Len(script_names) <= NameLimit
          THEN Append(script_names, last_line)
          ELSE script_names
    /\ last_line' = IF line # <<>> THEN line ELSE last_line
    /\ pc' = "yield2"
    /\ UNCHANGED <<stream, proc, returncode, pos, line, sink, returned>>
    /\ UNCHANGED <<reportVars, appVars>>

\* the header test, last_line = line, await asyncio.sleep(0)
Classify ==
    /\ pc = "yield1"
    /\ script_names' =
          IF /\ last_line # <<>>
             /\ StartsWith(line, CategoriesMarker)
             /\ Len(script_names) <= NameLimit
          THEN Append(script_names, last_line)
          ELSE script_names
    /\ last_line' = line
    /\ pc' = "yield2"
    /\ UNCHANGED <<stream, proc, returncode, pos, line, sink, returned>>
    /\ UNCHANGED <<reportVars, appVars>>

\* the second sleep(0) returns; the loop asks for the next line
Resume ==
    /\ pc = "yield2"
    /\ pc' = "read"
    /\ UNCHANGED <<stream, proc, returncode, pos, line, last_line,
                   script_names, sink, returned>>
    /\ UNCHANGED <<reportVars, appVars>>

\* process.stdout reaches end of file: the loop ends, await process.wait()
EndOfStream ==
    /\ pc = "read"
    /\ pos = Len(stream)
    /\ proc \in {"closed", "exited"}
    /\ pc' = "wait"
    /\ UNCHANGED <<stream, proc, returncode, pos, line, last_line,
                   script_names, sink, returned>>
    /\ UNCHANGED <<reportVars, appVars>>

\* Finish without `await process.wait()`: the completion line is written as
\* soon as the output ends
Finish_NoWait ==
    /\ pc = "wait"
    /\ sink' = Append(sink, CompletionMarker(returncode))
    /\ returned' = <<script_names>>
    /\ pc' = "done"
    /\ UNCHANGED <<stream, proc, returncode, pos, line, last_line,
                   script_names>>
    /\ UNCHANGED <<reportVars, appVars>>

\* process.wait() returns; write the completion line; return script_names
Finish ==
    /\ pc = "wait"
    /\ proc = "exited"
    /\ sink' = Append(sink, CompletionMarker(returncode))
    /\ returned' = <<script_names>>
    /\ pc' = "done"
    /\ UNCHANGED <<stream, proc, returncode, pos, line, last_line,
                   script_names>>
    /\ UNCHANGED <<reportVars, appVars>>

\* Cancel with the completion line written in a `finally:` block
Cancel_WritesMarker ==
    /\ pc \in {"read", "yield1", "yield2", "wait"}
    /\ sink' = Append(sink, CompletionMarker(returncode))
    /\ pc' = "cancelled"
    /\ UNCHANGED <<stream, proc, returncode, pos, line, last_line,
                   script_names, returned>>
    /\ UNCHANGED <<reportVars, appVars>>

\* The worker running the coroutine is cancelled (run_worker(exclusive=True)
\* started again, or the modal dismissed): CancelledError is raised at the
\* await the coroutine is suspended in, and nothing after it runs.
Cancel ==
    /\ pc \in {"read", "yield1", "yield2", "wait"}
    /\ pc' = "cancelled"
    /\ UNCHANGED <<stream, proc, returncode, pos, line, last_line,
                   script_names, sink, returned>>
    /\ UNCHANGED <<reportVars, appVars>>

(* The external process *)

\* the process has written all its output and closes stdout
ProcCloseStdout ==
    /\ proc = "running"
    /\ pos = Len(stream)
    /\ proc' = "closed"
    /\ UNCHANGED <<stream, returncode, pc, pos, line, last_line,
                   script_names, sink, returned>>
    /\ UNCHANGED <<reportVars, appVars>>

\* the process exits by itself
ProcExit ==
    /\ proc = "closed"
    /\ \E c \in ExitCodes : returncode' = c
    /\ proc' = "exited"
    /\ UNCHANGED <<stream, pc, pos, line, last_line, script_names, sink,
                   returned>>
    /\ UNCHANGED <<reportVars, appVars>>

\* the process is terminated by a signal: it writes nothing more, its stdout
\* is closed and its return code is the negated signal number
ProcTerminated ==
    /\ proc \in {"running", "closed"}
    /\ stream' = SubSeq(stream, 1, pos)
    /\ \E c \in SignalCodes : returncode' = c
    /\ proc' = "exited"
    /\ UNCHANGED <<pc, pos, line, last_line, script_names, sink, returned>>
    /\ UNCHANGED <<reportVars, appVars>>

StreamStep == ReadLine \/ Classify \/ Resume \/ EndOfStream \/ Finish

StreamNext ==
    \/ Start
    \/ ReadLine
    \/ Classify
    \/ Resume
    \/ EndOfStream
    \/ Finish
    \/ Cancel
    \/ ProcCloseStdout
    \/ ProcExit
    \/ ProcTerminated

----------------------------------------------------------------------------
(* NmapXMLParser: the XML document *)

(* In this part a value read from the document (an attribute value) is a    *)
(* sequence of characters; a literal piece of a format string is one lexeme. *)

\* an XML element: its tag, its attributes (a function from names to values)
\* and its child elements in document order
El(tag, attrib, children) ==
    [tag |-> tag, attrib |-> attrib, children |-> children]

NoAttrib == [k \in {} |-> <<>>]

\* Element.get(key, default)
Get(e, k, d) == IF k \in DOMAIN e.attrib THEN e.attrib[k] ELSE d

\* Element.find(tag) is not None
HasChild(e, t) == \E i \in 1..Len(e.children) : e.children[i].tag = t

\* Element.find(tag): the first child with that tag
Find(e, t) ==
    e.children[CHOOSE i \in 1..Len(e.children) :
                  /\ e.children[i].tag = t
                  /\ \A j \in 1..(i - 1) : e.children[j].tag # t]

\* Element.findall(tag): the children with that tag, in document order
FindAll(e, t) == SelectSeq(e.children, LAMBDA c : c.tag = t)

Digits == {"0", "1", "2", "3", "4", "5", "6", "7", "8", "9"}

DigitValue(d) ==
    CASE d = "0" -> 0 [] d = "1" -> 1 [] d = "2" -> 2 [] d = "3" -> 3
      [] d = "4" -> 4 [] d = "5" -> 5 [] d = "6" -> 6 [] d = "7" -> 7
      [] d = "8" -> 8 [] d = "9" -> 9

Unsigned(s) == IF s # <<>> /\ Head(s) \in {"+", "-"} THEN Tail(s) ELSE s

\* int(s) does not raise ValueError: optional surrounding whitespace, an
\* optional sign, then one or more decimal digits
IsInt(s) ==
    LET u == Unsigned(Strip(s))
    IN  u # <<>> /\ \A i \in 1..Len(u) : u[i] \in Digits

RECURSIVE DigitsValue(_)
DigitsValue(u) ==
    IF u = <<>> THEN 0
    ELSE 10 * DigitsValue(SubSeq(u, 1, Len(u) - 1)) + DigitValue(u[Len(u)])

\* int(s), for a string on which it does not raise
IntOf(s) ==
    LET t == Strip(s)
    IN  IF Head(t) = "-" THEN -DigitsValue(Tail(t)) ELSE DigitsValue(Unsigned(t))

----------------------------------------------------------------------------
(* NmapXMLParser: parsing *)

\* _parse_port
ParsePort(port_elem) ==
    LET hasState == HasChild(port_elem, "state")
        state == Find(port_elem, "state")
        hasService == HasChild(port_elem, "service")
        service == Find(port_elem, "service")
        scripts == FindAll(port_elem, "script")
    IN  [ protocol |-> Get(port_elem, "protocol", <<"t", "c", "p">>),
          portid |-> Get(port_elem, "portid", <<"u", "n", "k", "n", "o", "w", "n">>),
          state |-> IF hasState THEN Get(state, "state", <<"u", "n", "k", "n", "o", "w", "n">>)
                    ELSE <<"u", "n", "k", "n", "o", "w", "n">>,
          state_reason |-> IF hasState THEN Get(state, "reason", <<>>)
                           ELSE <<>>,
          service |-> IF hasService THEN Get(service, "name", <<"u", "n", "k", "n", "o", "w", "n">>)
                      ELSE <<"u", "n", "k", "n", "o", "w", "n">>,
          product |-> IF hasService THEN Get(service, "product", <<>>)
                      ELSE <<>>,
          version |-> IF hasService THEN Get(service, "version", <<>>)
                      ELSE <<>>,
          extrainfo |-> IF hasService THEN Get(service, "extrainfo", <<>>)
                        ELSE <<>>,
          method |-> IF hasService THEN Get(service, "method", <<>>)
                     ELSE <<>>,
          conf |-> IF hasService THEN Get(service, "conf", <<"0">>) ELSE <<"0">>,
          scripts |-> [i \in 1..Len(scripts) |->
                          [id |-> Get(scripts[i], "id", <<>>),
                           output |-> Get(scripts[i], "output", <<>>)]] ]

ZeroStats == [open |-> 0, closed |-> 0, filtered |-> 0, other |-> 0]

\* CountState without the final else branch
CountState_NoOther(stats, state) ==
    IF state = <<"o", "p", "e", "n">> THEN [stats EXCEPT !.open = @ + 1]
    ELSE IF state = <<"c", "l", "o", "s", "e", "d">> THEN [stats EXCEPT !.closed = @ + 1]
    ELSE IF state = <<"f", "i", "l", "t", "e", "r", "e", "d">> THEN [stats EXCEPT !.filtered = @ + 1]
    ELSE stats

\* the if/elif chain that counts one port's state
CountState(stats, state) ==
    IF state = <<"o", "p", "e", "n">> THEN [stats EXCEPT !.open = @ + 1]
    ELSE IF state = <<"c", "l", "o", "s", "e", "d">> THEN [stats EXCEPT !.closed = @ + 1]
    ELSE IF state = <<"f", "i", "l", "t", "e", "r", "e", "d">> THEN [stats EXCEPT !.filtered = @ + 1]
    ELSE [stats EXCEPT !.other = @ + 1]

\* port_stats after the loop over the port elements
RECURSIVE CountPorts(_, _, _)
CountPorts(ports, i, stats) ==
    IF i > Len(ports) THEN stats
    ELSE CountPorts(ports, i + 1, CountState(stats, ports[i].state))

\* int(elem.get('count', 0)) raises ValueError
CountRaises(e) == "count" \in DOMAIN e.attrib /\ ~IsInt(e.attrib["count"])

\* int(elem.get('count', 0))
CountOf(e) == IF "count" \in DOMAIN e.attrib THEN IntOf(e.attrib["count"]) ELSE 0

\* building extra_info from one extraports element raises ValueError
ExtraportsRaises(extraports) ==
    \/ CountRaises(extraports)
    \/ LET reasons == FindAll(extraports, "extrareasons")
       IN  \E i \in 1..Len(reasons) : CountRaises(reasons[i])

\* extra_info built from one extraports element
ParseExtraports(extraports) ==
    LET reasons == FindAll(extraports, "extrareasons")
    IN  [ state |-> Get(extraports, "state", <<"u", "n", "k", "n", "o", "w", "n">>),
          count |-> CountOf(extraports),
          reasons |-> [i \in 1..Len(reasons) |->
                          [reason |-> Get(reasons[i], "reason", <<>>),
                           count |-> CountOf(reasons[i])]] ]

\* ParseHostRaises with a host element without ports element raising as well
ParseHostRaises_NeedsPorts(host_elem) ==
    \/ ~HasChild(host_elem, "ports")
    \/ LET extras == FindAll(Find(host_elem, "ports"), "extraports")
       IN  \E i \in 1..Len(extras) : ExtraportsRaises(extras[i])

\* _parse_host raises ValueError
ParseHostRaises(host_elem) ==
    /\ HasChild(host_elem, "ports")
    /\ LET extras == FindAll(Find(host_elem, "ports"), "extraports")
       IN  \E i \in 1..Len(extras) : ExtraportsRaises(extras[i])

\* _parse_host, for a host element on which it does not raise
ParseHost(host_elem) ==
    LET hasStatus == HasChild(host_elem, "status")
        status == Find(host_elem, "status")
        hasAddress == HasChild(host_elem, "address")
        address == Find(host_elem, "address")
        hostnames == IF HasChild(host_elem, "hostnames")
                     THEN FindAll(Find(host_elem, "hostnames"), "hostname")
                     ELSE <<>>
        hasPorts == HasChild(host_elem, "ports")
        ports_elem == Find(host_elem, "ports")
        ports == IF hasPorts
                 THEN LET ps == FindAll(ports_elem, "port")
                      IN  [i \in 1..Len(ps) |-> ParsePort(ps[i])]
                 ELSE <<>>
        extras == IF hasPorts THEN FindAll(ports_elem, "extraports") ELSE <<>>
        osmatches == IF HasChild(host_elem, "os")
                     THEN FindAll(Find(host_elem, "os"), "osmatch")
                     ELSE <<>>
        hops == IF HasChild(host_elem, "trace")
                THEN FindAll(Find(host_elem, "trace"), "hop")
                ELSE <<>>
        named == SelectSeq(hostnames, LAMBDA h : Get(h, "name", <<>>) # <<>>)
        host_info ==
          [ state |-> IF hasStatus THEN Get(status, "state", <<"u", "n", "k", "n", "o", "w", "n">>)
                      ELSE <<"u", "n", "k", "n", "o", "w", "n">>,
            reason |-> IF hasStatus THEN Get(status, "reason", <<>>) ELSE <<>>,
            addr |-> IF hasAddress THEN Get(address, "addr", <<"N", "/", "A">>) ELSE <<"N", "/", "A">>,
            addrtype |-> IF hasAddress THEN Get(address, "addrtype", <<"i", "p", "v", "4">>)
                         ELSE <<"i", "p", "v", "4">>,
            hostnames |-> [i \in 1..Len(named) |->
                              [name |-> Get(named[i], "name", <<>>),
                               type |-> Get(named[i], "type", <<>>)]],
            ports |-> ports,
            port_stats |-> CountPorts(ports, 1, ZeroStats),
            os |-> [i \in 1..Len(osmatches) |->
                       [name |-> Get(osmatches[i], "name", <<"U", "n", "k", "n", "o", "w", "n">>),
                        accuracy |-> Get(osmatches[i], "accuracy", <<"0">>)]],
            trace |-> [i \in 1..Len(hops) |->
                          [ttl |-> Get(hops[i], "ttl", <<>>),
                           host |-> Get(hops[i], "host", <<>>),
                           ip |-> Get(hops[i], "ipaddr", <<>>),
                           time |-> Get(hops[i], "time", <<>>)]] ]
    IN  IF extras = <<>> THEN host_info
        ELSE ("extraports" :> ParseExtraports(extras[Len(extras)])) @@ host_info

\* WellFormed with an empty file taken for a document without elements
WellFormed_AcceptsEmpty(doc) == doc.kind \in {"xml", "empty"}

\* a document that ET.parse accepts
WellFormed(doc) == doc.kind = "xml"

\* parse_xml raises ValueError
ParseXmlRaises(root_elem) ==
    LET hs == FindAll(root_elem, "host")
    IN  \E i \in 1..Len(hs) : ParseHostRaises(hs[i])

\* self.hosts after parse_xml
ParseXml(root_elem) ==
    LET hs == FindAll(root_elem, "host")
    IN  [i \in 1..Len(hs) |-> ParseHost(hs[i])]

----------------------------------------------------------------------------
(* NmapXMLParser: rendering *)

\* the literal 80 of "=" * 80 and "-" * 80
RuleWidth == 80

\* "=" * 80
DoubleRule == [i \in 1..RuleWidth |-> "="]

\* "-" * 80
SingleRule == [i \in 1..RuleWidth |-> "-"]

\* the thresholds of the filtered, closed and OS sections
FilteredShown == 10
ClosedDetailLimit == 10
OsShown == 3

LowerCase == <<"a", "b", "c", "d", "e", "f", "g", "h", "i", "j", "k", "l", "m",
               "n", "o", "p", "q", "r", "s", "t", "u", "v", "w", "x", "y", "z">>

UpperCase == <<"A", "B", "C", "D", "E", "F", "G", "H", "I", "J", "K", "L", "M",
               "N", "O", "P", "Q", "R", "S", "T", "U", "V", "W", "X", "Y", "Z">>

\* str.upper()
Upper(s) ==
    [i \in 1..Len(s) |->
        IF \E k \in 1..Len(LowerCase) : LowerCase[k] = s[i]
        THEN UpperCase[CHOOSE k \in 1..Len(LowerCase) : LowerCase[k] = s[i]]
        ELSE s[i]]

\* f"{s:w}": a string padded on the right with spaces to at least w characters
Pad(s, w) == s \o [i \in 1..(w - Len(s)) |-> " "]

\* "\n".join(lines)
RECURSIVE Join(_)
Join(lines) ==
    IF lines = <<>> THEN <<>>
    ELSE IF Len(lines) = 1 THEN lines[1]
    ELSE Join(SubSeq(lines, 1, Len(lines) - 1)) \o <<"\n">> \o lines[Len(lines)]

\* datetime.now().strftime('%Y-%m-%d %H:%M:%S'), the clock counting half
\* seconds: the text names the whole second and nothing finer
Strftime(now) == <<ToString(now \div 2)>>

\* _format_port
FormatPort(port) ==
    <<"  ">> \o port.portid \o <<"/">> \o Pad(port.protocol, 3) \o <<" ">>
      \o Pad(port.state, 8) \o <<" ">> \o Pad(port.service, 15)
      \o (IF port.product # <<>> \/ port.version # <<>>
          THEN <<" ">> \o port.product
                 \o (IF port.version # <<>> THEN <<" ">> \o port.version
                     ELSE <<>>)
          ELSE <<>>)
      \o (IF port.extrainfo # <<>>
          THEN <<" (">> \o port.extrainfo \o <<")">>
          ELSE <<>>)

\* the ports of a host in one state, in stored order
PortsInState(host, state) == SelectSeq(host.ports, LAMBDA p : p.state = state)

\* sorted(ports, key=lambda x: int(x['portid'])) raises ValueError
SortRaises(ports) == \E i \in 1..Len(ports) : ~IsInt(ports[i].portid)

\* InsertByPort with p put before the ports of its own number
InsertByPort_BeforeEqual(sorted, p) ==
    LET k == Cardinality({ i \in 1..Len(sorted) :
                             IntOf(sorted[i].portid) < IntOf(p.portid) })
    IN  SubSeq(sorted, 1, k) \o <<p>> \o SubSeq(sorted, k + 1, Len(sorted))

\* p put after the last port of a sorted list whose number is not greater
InsertByPort(sorted, p) ==
    LET k == Cardinality({ i \in 1..Len(sorted) :
                             IntOf(sorted[i].portid) <= IntOf(p.portid) })
    IN  SubSeq(sorted, 1, k) \o <<p>> \o SubSeq(sorted, k + 1, Len(sorted))

\* sorted(ports, key=lambda x: int(x['portid'])): ascending and stable
RECURSIVE SortByPort(_)
SortByPort(ports) ==
    IF ports = <<>> THEN <<>>
    ELSE InsertByPort(SortByPort(SubSeq(ports, 1, Len(ports) - 1)),
                      ports[Len(ports)])

FormatPorts(ports) == [i \in 1..Len(ports) |-> FormatPort(ports[i])]

\* _format_host raises ValueError
FormatHostRaises(host) ==
    LET open_ports == PortsInState(host, <<"o", "p", "e", "n">>)
        filtered_ports == PortsInState(host, <<"f", "i", "l", "t", "e", "r", "e", "d">>)
        closed_ports == PortsInState(host, <<"c", "l", "o", "s", "e", "d">>)
    IN  \/ SortRaises(open_ports)
        \/ SortRaises(filtered_ports)
        \/ Len(closed_ports) <= ClosedDetailLimit /\ SortRaises(closed_ports)

\* the "OPEN PORTS" section of _format_host
OpenSection(host) ==
    LET open_ports == PortsInState(host, <<"o", "p", "e", "n">>)
    IN  IF open_ports = <<>> THEN <<>>
        ELSE << <<"\nOPEN PORTS (", ToString(Len(open_ports)), "):">> >>
               \o FormatPorts(SortByPort(open_ports))

\* FilteredSection with the ports cut to the limit before they are sorted
FilteredSection_CutsBeforeSort(host) ==
    LET filtered_ports == PortsInState(host, <<"f", "i", "l", "t", "e", "r", "e", "d">>)
        n == Len(filtered_ports)
        shown == IF n < FilteredShown THEN n ELSE FilteredShown
    IN  IF filtered_ports = <<>> THEN <<>>
        ELSE << <<"\nFILTERED PORTS (", ToString(n), "):">> >>
               \o FormatPorts(SortByPort(SubSeq(filtered_ports, 1, shown)))
               \o (IF n > FilteredShown
                   THEN << <<"  ... and ", ToString(n - FilteredShown),
                             " more filtered ports">> >>
                   ELSE <<>>)

\* the "FILTERED PORTS" section of _format_host
FilteredSection(host) ==
    LET filtered_ports == PortsInState(host, <<"f", "i", "l", "t", "e", "r", "e", "d">>)
        n == Len(filtered_ports)
        shown == IF n < FilteredShown THEN n ELSE FilteredShown
    IN  IF filtered_ports = <<>> THEN <<>>
        ELSE << <<"\nFILTERED PORTS (", ToString(n), "):">> >>
               \o FormatPorts(SubSeq(SortByPort(filtered_ports), 1, shown))
               \o (IF n > FilteredShown
                   THEN << <<"  ... and ", ToString(n - FilteredShown),
                             " more filtered ports">> >>
                   ELSE <<>>)

\* ClosedSection with the details given only below the limit
ClosedSection_DetailBelowLimit(host) ==
    LET closed_ports == PortsInState(host, <<"c", "l", "o", "s", "e", "d">>)
        n == Len(closed_ports)
    IN  IF closed_ports # <<>> /\ n < ClosedDetailLimit
        THEN << <<"\nCLOSED PORTS (", ToString(n), "):">> >>
               \o FormatPorts(SortByPort(closed_ports))
        ELSE IF closed_ports # <<>>
        THEN << <<"\nCLOSED PORTS: ", ToString(n), " ports closed">> >>
        ELSE <<>>

\* the "CLOSED PORTS" section of _format_host
ClosedSection(host) ==
    LET closed_ports == PortsInState(host, <<"c", "l", "o", "s", "e", "d">>)
        n == Len(closed_ports)
    IN  IF closed_ports # <<>> /\ n <= ClosedDetailLimit
        THEN << <<"\nCLOSED PORTS (", ToString(n), "):">> >>
               \o FormatPorts(SortByPort(closed_ports))
        ELSE IF closed_ports # <<>>
        THEN << <<"\nCLOSED PORTS: ", ToString(n), " ports closed">> >>
        ELSE <<>>

\* the "EXTRA PORTS" section of _format_host
ExtraSection(host) ==
    IF "extraports" \in DOMAIN host
    THEN LET extra == host["extraports"]
         IN  << <<"\nEXTRA PORTS: ", ToString(extra.count), " ports ">>
                  \o extra.state >>
               \o [i \in 1..Len(extra.reasons) |->
                      <<"  ">> \o extra.reasons[i].reason
                        \o <<": ", ToString(extra.reasons[i].count)>>]
    ELSE <<>>

\* OsSection with the last matches shown instead of the first
OsSection_LastMatches(host) ==
    LET n == Len(host.os)
        shown == IF n < OsShown THEN n ELSE OsShown
    IN  IF host.os = <<>> THEN <<>>
        ELSE << <<"\nOS DETECTION:">> >>
               \o [i \in 1..shown |->
                      <<"  ">> \o host.os[n - shown + i].name \o <<" (">>
                        \o host.os[n - shown + i].accuracy \o <<"%)">>]

\* the "OS DETECTION" section of _format_host
OsSection(host) ==
    LET shown == IF Len(host.os) < OsShown THEN Len(host.os) ELSE OsShown
    IN  IF host.os = <<>> THEN <<>>
        ELSE << <<"\nOS DETECTION:">> >>
               \o [i \in 1..shown |->
                      <<"  ">> \o host.os[i].name \o <<" (">>
                        \o host.os[i].accuracy \o <<"%)">>]

\* the "TRACEROUTE" section of _format_host
TraceSection(host) ==
    IF host.trace = <<>> THEN <<>>
    ELSE << <<"\nTRACEROUTE:">> >>
           \o [i \in 1..Len(host.trace) |->
                  <<"  TTL ">> \o host.trace[i].ttl \o <<": ">>
                    \o host.trace[i].host \o <<" (">> \o host.trace[i].ip
                    \o <<") ", "- ">> \o host.trace[i].time \o <<"ms">>]

\* _format_host, for a host on which it does not raise: the lines of one host
FormatHost(host, host_num) ==
    << <<"\nHOST ", ToString(host_num)>>,
       SingleRule,
       <<"Address: ">> \o host.addr \o <<" (">> \o host.addrtype \o <<")">>,
       <<"Status: ">> \o Upper(host.state) \o <<" (">> \o host.reason
         \o <<")">> >>
      \o (IF host.hostnames = <<>> THEN <<>>
          ELSE << <<"Hostnames:">> >>
                 \o [i \in 1..Len(host.hostnames) |->
                        <<"  ">> \o host.hostnames[i].name \o <<" (">>
                          \o host.hostnames[i].type \o <<")">>])
      \o << <<"\nPort Summary:">>,
            <<"  Open: ", ToString(host.port_stats.open),
              ", Closed: ", ToString(host.port_stats.closed),
              ", ", "Filtered: ", ToString(host.port_stats.filtered),
              ", Other: ", ToString(host.port_stats.other)>> >>
      \o OpenSection(host)
      \o FilteredSection(host)
      \o ClosedSection(host)
      \o ExtraSection(host)
      \o OsSection(host)
      \o TraceSection(host)

\* sum(...) over a list of numbers
RECURSIVE Sum(_)
Sum(ns) == IF ns = <<>> THEN 0 ELSE Head(ns) + Sum(Tail(ns))

\* _format_summary
FormatSummary(hs) ==
    LET total_open == Sum([i \in 1..Len(hs) |-> hs[i].port_stats.open])
        total_closed == Sum([i \in 1..Len(hs) |-> hs[i].port_stats.closed])
        total_filtered == Sum([i \in 1..Len(hs) |-> hs[i].port_stats.filtered])
        hosts_up == Sum([i \in 1..Len(hs) |-> IF hs[i].state = <<"u", "p">> THEN 1 ELSE 0])
    IN  << <<"\n">> \o DoubleRule,
           <<"SCAN SUMMARY">>,
           DoubleRule,
           <<"Total Hosts Scanned: ", ToString(Len(hs))>>,
           <<"Hosts Up: ", ToString(hosts_up)>>,
           <<"\nPort Statistics (All Hosts):">>,
           <<"  Total Open: ", ToString(total_open)>>,
           <<"  Total Closed: ", ToString(total_closed)>>,
           <<"  Total Filtered: ", ToString(total_filtered)>> >>

\* ReportHeader with the time of generation put in the title line as well
ReportHeader_StampedTitle(path, now) ==
    << DoubleRule,
       <<"NMAP SCAN REPORT ">> \o Strftime(now),
       DoubleRule,
       <<"Generated: ">> \o Strftime(now),
       <<"XML File: ">> \o path,
       <<>> >>

\* the header lines of _build_report
ReportHeader(path, now) ==
    << DoubleRule,
       <<"NMAP SCAN REPORT">>,
       DoubleRule,
       <<"Generated: ">> \o Strftime(now),
       <<"XML File: ">> \o path,
       <<>> >>

\* the "SCAN INFORMATION" lines of _build_report
ScanInformation(root_elem, hs) ==
    << <<"SCAN INFORMATION">>,
       SingleRule,
       <<"Nmap Version: ">> \o Get(root_elem, "version", <<"N", "/", "A">>),
       <<"Command: ">> \o Get(root_elem, "args", <<"N", "/", "A">>),
       <<"Total Hosts: ", ToString(Len(hs))>>,
       <<>> >>

\* the lines of all hosts, in stored order, numbered from 1
RECURSIVE FormatHosts(_, _)
FormatHosts(hs, i) ==
    IF i > Len(hs) THEN <<>> ELSE FormatHost(hs[i], i) \o FormatHosts(hs, i + 1)

\* _build_report raises ValueError
BuildReportRaises(hs) == \E i \in 1..Len(hs) : FormatHostRaises(hs[i])

\* _build_report, for hosts on which it does not raise
BuildReport(path, root_elem, hs, now) ==
    Join(ReportHeader(path, now)
           \o ScanInformation(root_elem, hs)
           \o FormatHosts(hs, 1)
           \o FormatSummary(hs)
           \o <<DoubleRule>>)

----------------------------------------------------------------------------
(* Inputs of the parser *)

MaxPorts == 2      \* port elements of a generated ports element
MaxClock == 3      \* the clock stops after this many half seconds

Attr1(k, v) == k :> v

StateEl(state) == El("state", ("state" :> state) @@ ("reason" :> <<"s", "y", "n", "-", "a", "c", "k">>), <<>>)

PortElems ==
    { El("port", ("protocol" :> <<"t", "c", "p">>) @@ ("portid" :> <<"2", "2">>),
         << StateEl(<<"o", "p", "e", "n">>),
            El("service", ("name" :> <<"s", "s", "h">>) @@ ("product" :> <<"O", "p", "e", "n", "S", "S", "H">>)
                            @@ ("version" :> <<"8", ".", "9">>)
                            @@ ("extrainfo" :> <<"p", "r", "o", "t", "o", "c", "o", "l", " ", "2">>), <<>>),
            El("script", ("id" :> <<"b", "a", "n", "n", "e", "r">>) @@ ("output" :> <<"S", "S", "H", "-", "2", ".", "0">>), <<>>) >>),
      El("port", Attr1("portid", <<"8">>), << StateEl(<<"o", "p", "e", "n">>) >>),
      El("port", ("protocol" :> <<"u", "d", "p">>) @@ ("portid" :> <<"0", "2", "2">>),
         << StateEl(<<"o", "p", "e", "n">>), El("service", Attr1("version", <<"1">>), <<>>) >>),
      El("port", Attr1("protocol", <<"t", "c", "p">>), << StateEl(<<"o", "p", "e", "n">>) >>),
      El("port", Attr1("portid", <<"2", "5">>), << StateEl(<<"f", "i", "l", "t", "e", "r", "e", "d">>) >>),
      El("port", Attr1("portid", <<"8", "0">>), << StateEl(<<"c", "l", "o", "s", "e", "d">>) >>),
      El("port", Attr1("portid", <<"4", "4", "3">>), << StateEl(<<"o", "p", "e", "n", "|", "f", "i", "l", "t", "e", "r", "e", "d">>) >>),
      El("port", Attr1("portid", <<"x", "1">>), <<>>) }

PortLists == UNION { [1..k -> PortElems] : k \in 0..MaxPorts }

HostEl(children) == El("host", NoAttrib, children)

\* a host with nothing but a ports element holding the given port elements
PortsHost(ps) == HostEl(<< El("ports", NoAttrib, ps) >>)

\* a host element without any child
BareHost == HostEl(<<>>)

ExtraportsEl(attrib, reasons) == El("extraports", attrib, reasons)

ReasonEl(attrib) == El("extrareasons", attrib, <<>>)

\* a host with every kind of child element
FullHost ==
    HostEl(<<
      El("status", ("state" :> <<"u", "p">>) @@ ("reason" :> <<"e", "c", "h", "o", "-", "r", "e", "p", "l", "y">>), <<>>),
      El("address", ("addr" :> <<"1", "0", ".", "0", ".", "0", ".", "5">>) @@ ("addrtype" :> <<"i", "p", "v", "4">>), <<>>),
      El("address", ("addr" :> <<"A", "A", ":", "B", "B">>) @@ ("addrtype" :> <<"m", "a", "c">>), <<>>),
      El("hostnames", NoAttrib,
         << El("hostname", ("name" :> <<"g", "w">>) @@ ("type" :> <<"P", "T", "R">>), <<>>),
            El("hostname", Attr1("type", <<"u", "s", "e", "r">>), <<>>),
            El("hostname", Attr1("name", <<"g", "w">>), <<>>) >>),
      El("ports", NoAttrib,
         << ExtraportsEl(("state" :> <<"c", "l", "o", "s", "e", "d">>) @@ ("count" :> <<"9", "9", "7">>),
                         << ReasonEl(("reason" :> <<"r", "e", "s", "e", "t", "s">>)
                                       @@ ("count" :> <<" ", "9", "9", "7">>)),
                            ReasonEl(NoAttrib) >>),
            El("port", ("protocol" :> <<"t", "c", "p">>) @@ ("portid" :> <<"8", "0">>),
               << StateEl(<<"o", "p", "e", "n">>),
                  El("service", Attr1("name", <<"h", "t", "t", "p">>), <<>>) >>) >>),
      El("os", NoAttrib,
         << El("osmatch", ("name" :> <<"L", "i", "n", "u", "x", " ", "5">>) @@ ("accuracy" :> <<"9", "8">>), <<>>),
            El("osmatch", ("name" :> <<"L", "i", "n", "u", "x", " ", "4">>) @@ ("accuracy" :> <<"n", "/", "a">>), <<>>),
            El("osmatch", Attr1("name", <<"B", "S", "D">>), <<>>),
            El("osmatch", Attr1("accuracy", <<"9", "9">>), <<>>) >>),
      El("trace", NoAttrib,
         << El("hop", ("ttl" :> <<"1">>) @@ ("ipaddr" :> <<"1", "0", ".", "0", ".", "0", ".", "1">>)
                        @@ ("time" :> <<"0", ".", "5">>), <<>>),
            El("hop", ("ttl" :> <<"2">>) @@ ("host" :> <<"g", "w">>)
                        @@ ("ipaddr" :> <<"1", "0", ".", "0", ".", "0", ".", "5">>), <<>>) >>) >>)

\* hosts whose extraports elements carry the given count attributes
ExtraHosts ==
    { PortsHost(<< ExtraportsEl(Attr1("count", <<"m", "a", "n", "y">>), <<>>) >>),
      PortsHost(<< ExtraportsEl(("state" :> <<"c", "l", "o", "s", "e", "d">>) @@ ("count" :> <<"3">>),
                                << ReasonEl(("reason" :> <<"r", "e", "s", "e", "t", "s">>)
                                              @@ ("count" :> <<"x">>)) >>) >>),
      PortsHost(<< ExtraportsEl(("state" :> <<"f", "i", "l", "t", "e", "r", "e", "d">>) @@ ("count" :> <<"3">>),
                                <<>>),
                   ExtraportsEl(Attr1("state", <<"c", "l", "o", "s", "e", "d">>), <<>>) >>) }

MaxBulk == 12      \* ports of the largest host with ports of one state only

\* the decimal digits of a natural number
RECURSIVE Dec(_)
Dec(n) == IF n < 10 THEN <<ToString(n)>> ELSE Dec(n \div 10) \o <<ToString(n % 10)>>

\* the i-th port element of a host with ports of one state only: the numbers
\* 15, 27, 11, 23, 7, 19, 3 repeat, on tcp and udp in turn
BulkPort(state, i) ==
    El("port", ("protocol" :> (IF i % 2 = 1 THEN <<"t", "c", "p">> ELSE <<"u", "d", "p">>))
                 @@ ("portid" :> Dec(((i * 3) % 7) * 4 + 3)),
       << StateEl(state) >>)

BulkStates == { <<"o", "p", "e", "n">>, <<"f", "i", "l", "t", "e", "r", "e", "d">>, <<"c", "l", "o", "s", "e", "d">> }

\* as many ports as one section shows, one more, and the largest number
BulkSizes == { FilteredShown, ClosedDetailLimit + 1, MaxBulk }

\* hosts with many ports of one state
BulkHosts ==
    { PortsHost([i \in 1..n |-> BulkPort(state, i)]) :
        state \in BulkStates, n \in BulkSizes }

\* a host with three open ports, two of one number, out of order among ports
\* of other states
MixedHost ==
    PortsHost(<< El("port", ("protocol" :> <<"t", "c", "p">>) @@ ("portid" :> <<"2", "2">>),
                    << StateEl(<<"o", "p", "e", "n">>) >>),
                 El("port", Attr1("portid", <<"2", "5">>), << StateEl(<<"f", "i", "l", "t", "e", "r", "e", "d">>) >>),
                 El("port", Attr1("portid", <<"8">>), << StateEl(<<"o", "p", "e", "n">>) >>),
                 El("port", Attr1("portid", <<"8", "0">>), << StateEl(<<"c", "l", "o", "s", "e", "d">>) >>),
                 El("port", ("protocol" :> <<"u", "d", "p">>) @@ ("portid" :> <<"0", "2", "2">>),
                    << StateEl(<<"o", "p", "e", "n">>) >>),
                 El("port", Attr1("portid", <<"9">>), << StateEl(<<"f", "i", "l", "t", "e", "r", "e", "d">>) >>),
                 El("port", Attr1("portid", <<"7", "9">>), << StateEl(<<"c", "l", "o", "s", "e", "d">>) >>) >>)

\* hosts that stand alone in a document
RichHosts ==
    { PortsHost(ps) : ps \in PortLists } \cup ExtraHosts \cup BulkHosts
      \cup {FullHost, MixedHost}

\* hosts that also stand before and after another host
PairedHosts ==
    { PortsHost(<<p>>) : p \in PortElems } \cup ExtraHosts \cup {FullHost}

PlainHosts == { BareHost, PortsHost(<< El("port", Attr1("portid", <<"8">>),
                                          << StateEl(<<"o", "p", "e", "n">>) >>) >>) }

HostLists ==
    {<<>>} \cup { <<h>> : h \in RichHosts }
           \cup { <<h, p>> : h \in PairedHosts, p \in PlainHosts }
           \cup { <<p, h>> : p \in PlainHosts, h \in PairedHosts }

NmapRunAttrib == ("version" :> <<"7", ".", "9", "4">>) @@ ("args" :> <<"n", "m", "a", "p", " ", "-", "s", "S">>)

\* the files NmapXMLParser may be constructed on: well-formed documents with
\* a root element, an empty file and a file that is not XML
Documents ==
    { [kind |-> "xml", root |-> El("nmaprun", NmapRunAttrib, hs)] :
        hs \in HostLists }
      \cup { [kind |-> "xml", root |-> El("nmaprun", NoAttrib, <<>>)],
             [kind |-> "empty", root |-> El("", NoAttrib, <<>>)],
             [kind |-> "not xml", root |-> El("", NoAttrib, <<>>)] }

XmlFiles == { <<"/", "t", "m", "p", "/", "s", "c", "a", "n", ".", "x", "m", "l">> }

\* output_file of generate_report: None, a path that can be written, a path
\* that cannot
Destinations == {"None", "writable", "unwritable"}

NoOutcome == [exc |-> "none", text |-> <<>>]

\* places _export_parsed_xml may be asked to write to: one that can be
\* written and one that cannot
ExportPaths == { <<"o", "u", "t", ".", "t", "x", "t">>,
                 <<"/", "r", "o", "/", "o", "u", "t", ".", "t", "x", "t">> }

Writable(path) == path[1] # "/"

NoExport == [exc |-> "none", message |-> <<>>, value |-> <<>>]

----------------------------------------------------------------------------
(* NmapXMLParser: construction and generate_report *)

ReportInit ==
    /\ xml_file = <<>>
    /\ xml_doc = [kind |-> "none", root |-> El("", NoAttrib, <<>>)]
    /\ pstate = "none"
    /\ error = "none"
    /\ root = El("", NoAttrib, <<>>)
    /\ hosts = <<>>
    /\ clock = 0
    /\ report = NoOutcome
    /\ previous = NoOutcome
    /\ file = <<>>
    /\ export = NoExport

\* NmapXMLParser(xml_file): ET.parse, getroot, parse_xml
Construct ==
    /\ pstate = "none"
    /\ \E f \in XmlFiles, doc \in Documents :
         /\ xml_file' = f
         /\ xml_doc' = doc
         /\ IF ~WellFormed(doc)
            THEN /\ pstate' = "failed"
                 /\ error' = "ParseError"
                 /\ UNCHANGED <<root, hosts>>
            ELSE IF ParseXmlRaises(doc.root)
            THEN /\ pstate' = "failed"
                 /\ error' = "ValueError"
                 /\ UNCHANGED <<root, hosts>>
            ELSE /\ pstate' = "ready"
                 /\ error' = "none"
                 /\ root' = doc.root
                 /\ hosts' = ParseXml(doc.root)
    /\ UNCHANGED <<clock, report, previous, file, export>>
    /\ UNCHANGED <<streamVars, appVars>>

\* generate_report(output_file): _build_report, then the optional write
GenerateReport ==
    /\ pstate = "ready"
    /\ \E dest \in Destinations :
         IF BuildReportRaises(hosts)
         THEN /\ report' = [exc |-> "ValueError", text |-> <<>>]
              /\ UNCHANGED file
         ELSE LET text == BuildReport(xml_file, root, hosts, clock)
              IN  IF dest = "unwritable"
                  THEN /\ report' = [exc |-> "OSError", text |-> <<>>]
                       /\ UNCHANGED file
                  ELSE /\ report' = [exc |-> "", text |-> text]
                       /\ file' = IF dest = "writable" THEN text ELSE file
    /\ previous' = report
    /\ UNCHANGED <<xml_file, xml_doc, pstate, error, root, hosts, clock,
                   export>>
    /\ UNCHANGED <<streamVars, appVars>>

\* time passes
Tick ==
    /\ clock < MaxClock
    /\ clock' = clock + 1
    /\ UNCHANGED <<xml_file, xml_doc, pstate, error, root, hosts, report,
                   previous, file, export>>
    /\ UNCHANGED <<streamVars, appVars>>

\* str(e) of the exception a step of _export_parsed_xml raised
StrOf(exc, path) ==
    CASE exc = "ParseError" -> <<"syntax error: line 1, column 0">>
      [] exc = "ValueError" -> <<"invalid literal for int() with base 10">>
      [] exc = "OSError" -> <<"[Errno 13] Permission denied: ">> \o path

\* raise Exception(f"XML Parsing Error: {str(e)}")
ParsingError(exc, path) ==
    [exc |-> "Exception",
     message |-> <<"XML Parsing Error: ">> \o StrOf(exc, path),
     value |-> <<>>]

\* _export_parsed_xml(output_path) of a modal whose output_file has the
\* content doc: what it returns or raises
ExportParsedXml(doc, output_path) ==
    IF ~WellFormed(doc) THEN ParsingError("ParseError", output_path)
    ELSE IF ParseXmlRaises(doc.root) THEN ParsingError("ValueError", output_path)
    ELSE IF BuildReportRaises(ParseXml(doc.root))
    THEN ParsingError("ValueError", output_path)
    ELSE IF ~Writable(output_path) THEN ParsingError("OSError", output_path)
    ELSE [exc |-> "", message |-> <<>>, value |-> output_path]

\* ExportModal._export_parsed_xml(output_path) of a modal on any output
\* file; the parser it constructs is a local of the call, and the modal is
\* dismissed with the outcome of its first call
Export ==
    /\ export = NoExport
    /\ \E f \in XmlFiles, doc \in Documents, output_path \in ExportPaths :
         /\ xml_file' = f
         /\ xml_doc' = doc
         /\ export' = ExportParsedXml(doc, output_path)
         /\ file' = IF export'.exc = ""
                    THEN BuildReport(f, doc.root, ParseXml(doc.root), clock)
                    ELSE file
    /\ UNCHANGED <<pstate, error, root, hosts, clock, report, previous>>
    /\ UNCHANGED <<streamVars, appVars>>

ReportNext == Construct \/ GenerateReport \/ Tick

ExportNext == Export \/ Tick

----------------------------------------------------------------------------
(* CardioNetApp: parameters, scans and the export modal *)

MaxFiles == 3      \* no scan is run once the disk holds this many files

\* values of the target input
Targets == { <<>>, <<"1", "0", ".", "0", ".", "0", ".", "0", "/", "8">> }

\* values of the output select: no output, grepable, XML
Outputs == {"", "oG", "oX"}

\* str.replace(old, new) for one-character old and new
Replace(s, old, new) == [i \in 1..Len(s) |-> IF s[i] = old THEN new ELSE s[i]]

\* extension_map.get(value, "txt")
Extension(value) ==
    CASE value = "oG" -> "gnmap"
      [] value = "oX" -> "xml"
      [] OTHER -> "txt"

\* /tmp/nmap_scan_{target_name}_{timestamp}.{ext}
ScanFile(target_value, now, ext) ==
    <<"/tmp/nmap_scan_">> \o Replace(Replace(target_value, "/", "_"), ".", "_")
      \o <<"_">> \o Strftime(now) \o <<".", ext>>

\* " ".join(command_as_list).split(" ") with the default scan type, timing
\* and ports and without optional features
Command(target_value, output_value, now) ==
    << <<"nmap">>, <<"-sS">>, <<"-T4">>, <<"-p">>, <<"1-1000">> >>
      \o (IF output_value # ""
          THEN << <<"-oN">>, ScanFile(target_value, now, "nmap"),
                  <<"-", output_value>>,
                  ScanFile(target_value, now, Extension(output_value)) >>
          ELSE <<>>)
      \o (IF Strip(target_value) # <<>> THEN <<target_value>> ELSE <<>>)

\* the files nmap writes when it is run with the arguments of a command
Written(command) ==
    { command[i + 1] : i \in { j \in 1..(Len(command) - 1) :
                                 command[j] \in { <<"-oN">>, <<"-", "oG">>,
                                                  <<"-", "oX">> } } }

NoResults == "No scan results available. Run a scan first"

AppInit ==
    /\ target = <<>>
    /\ output = ""
    /\ cmd = << <<"$">>, <<"nmap">> >>
    /\ output_file = <<>>
    /\ files = {}
    /\ export_modal = <<>>
    /\ notice = "none"

\* an input or a select of the scan configuration is changed, to any values
\* of target and output, while no modal covers it: handle_parameters_changed
ParametersChanged ==
    /\ export_modal = <<>>
    /\ \E t \in Targets, o \in Outputs :
         /\ target' = t
         /\ output' = o
         /\ output_file' = IF o # "" THEN ScanFile(t, clock, Extension(o))
                           ELSE output_file
         /\ cmd' = Command(t, o, clock)
    /\ UNCHANGED <<files, export_modal, notice>>
    /\ UNCHANGED <<streamVars, reportVars>>

\* action_run_scan, while no modal covers the application: the command of
\* the preview is run; nmap writes the files its arguments name, or does
\* not start, or fails before it writes any
RunScan ==
    /\ export_modal = <<>>
    /\ Cardinality(files) < MaxFiles
    /\ \E started \in BOOLEAN :
         files' = IF cmd[1] = <<"nmap">> /\ started
                  THEN files \cup Written(cmd)
                  ELSE files
    /\ UNCHANGED <<target, output, cmd, output_file, export_modal, notice>>
    /\ UNCHANGED <<streamVars, reportVars>>

\* action_open_export_modal, while no modal covers the application
OpenExportModal ==
    /\ export_modal = <<>>
    /\ IF output_file # <<>>
       THEN /\ export_modal' = <<output_file>>
            /\ UNCHANGED notice
       ELSE /\ notice' = NoResults
            /\ UNCHANGED export_modal
    /\ UNCHANGED <<target, output, cmd, output_file, files>>
    /\ UNCHANGED <<streamVars, reportVars>>

\* the modal is dismissed by Cancel or by Save: _handle_export_result
\* notifies the message; an export of a file that does not exist fails
DismissExportModal ==
    /\ export_modal # <<>>
    /\ \E button \in {"save", "cancel"} :
         notice' = IF button = "cancel" THEN "Export cancelled"
                   ELSE IF export_modal[1] \in files THEN "Export successful!"
                   ELSE "Export failed"
    /\ export_modal' = <<>>
    /\ UNCHANGED <<target, output, cmd, output_file, files>>
    /\ UNCHANGED <<streamVars, reportVars>>

AppNext ==
    ParametersChanged \/ RunScan \/ OpenExportModal \/ DismissExportModal
      \/ Tick

----------------------------------------------------------------------------
(* Specifications *)

\* the state before any coroutine runs and any parser is constructed
Init == StreamInit /\ ReportInit /\ AppInit

\* one run of the stream classifier; no parser is constructed
StreamSpec == Init /\ [][StreamNext]_vars

\* asyncio resumes a coroutine whose awaited event has happened
StreamLive == StreamSpec /\ WF_vars(StreamStep)

\* one parser, constructed on any document and rendered at any times; no
\* stream classifier runs
ReportSpec == Init /\ [][ReportNext]_vars

\* exports of parsed reports from an ExportModal at any times; no stream
\* classifier runs and no parser outlives a call
ExportSpec == Init /\ [][ExportNext]_vars

\* the application with its parameters changed, scans run and the export
\* modal opened and dismissed in any order and at any times
AppSpec == Init /\ [][AppNext]_vars

----------------------------------------------------------------------------
(* Properties of the stream classifier *)

\* the lines the coroutine has forwarded so far (the sink without an
\* appended completion line)
Forwarded == SubSeq(sink, 1, pos)

\* the forwarded lines the header test has already been applied to
Classified == IF pc = "yield1" THEN SubSeq(sink, 1, pos - 1) ELSE Forwarded

MarkerPositions == { i \in 1..Len(sink) : IsCompletionMarker(sink[i]) }

\* the names the detection rule of the specification collects from `lines`
\* with a cap of `cap` names
RECURSIVE NamesByRule(_, _, _, _)
NamesByRule(lines, cap, i, acc) ==
    IF i > Len(lines) THEN acc
    ELSE NamesByRule(lines, cap, i + 1,
            IF /\ i > 1
               /\ lines[i - 1] # <<>>
               /\ StartsWith(lines[i], CategoriesMarker)
               /\ Len(acc) < cap
            THEN Append(acc, lines[i - 1])
            ELSE acc)

\* C1: the list of collected names never holds more than 25 names, whatever
\* lines have been processed.
C1_AtMost25Names == Len(script_names) <= 25

\* C2: the collected names are, in order, the predecessors of the lines that
\* the detection rule accepts: predecessor non-empty, line begins with
\* "Categories:", fewer than 25 names collected so far.
C2_DetectionRule ==
    pc # "cancelled" => script_names = NamesByRule(Classified, 25, 1, <<>>)

\* C3: one-line lookback.  Whenever the header test is applied to a line, the
\* lookback afterwards is exactly that line; and a "Categories:" line that is
\* the first line, or whose immediate predecessor is empty, adds no name.
C3_OneLineLookback ==
    [][ (pc = "yield1" /\ pc' = "yield2") =>
           /\ last_line' = sink[pos]
           /\ ( /\ StartsWith(sink[pos], CategoriesMarker)
                /\ (pos = 1 \/ sink[pos - 1] = <<>>) )
              => script_names' = script_names ]_vars

\* C3 witness: a "Categories:" line after an empty line, with a non-empty line
\* two lines back, has been classified and no name was collected.
C3_Witness ==
    /\ pc = "yield2"
    /\ pos >= 3
    /\ StartsWith(sink[pos], CategoriesMarker)
    /\ sink[pos - 1] = <<>>
    /\ sink[pos - 2] # <<>>
    /\ script_names = <<>>

\* a line without its line terminator
Chomp(raw) ==
    IF raw # <<>> /\ raw[Len(raw)] = "\n" THEN SubSeq(raw, 1, Len(raw) - 1)
    ELSE raw

\* C4 as stated: every line read is in the sink unchanged (but for its line
\* terminator) and in arrival order.
C4_ForwardedVerbatim ==
    /\ Len(sink) >= pos
    /\ \A i \in 1..pos : sink[i] = Chomp(stream[i])

\* C4 as amended: after k lines have been read the sink holds exactly those k
\* lines, each with its leading and trailing whitespace stripped, in arrival
\* order, and nothing else until the completion line is appended; each line
\* is in the sink before the next one is requested.
C4_ForwardedStripped ==
    /\ pos <= Len(stream)
    /\ Len(sink) = pos + (IF pc = "done" THEN 1 ELSE 0)
    /\ \A i \in 1..pos : sink[i] = Strip(stream[i])

\* C4 witness: three lines have been read and forwarded, the third one an
\* indented line that reached the sink without its indentation.
C4_Witness ==
    /\ pc = "read"
    /\ pos = 3
    /\ Len(sink) = 3
    /\ stream[3] = <<" ", " ", "Categories:", " ", "y", "\n">>
    /\ sink[3] = <<"Categories:", " ", "y">>

\* what must hold of the completion line at every moment
CompletionSafety ==
    /\ Cardinality(MarkerPositions) <= 1
    /\ MarkerPositions # {} =>
          /\ MarkerPositions = {Len(sink)}
          /\ Len(sink) = Len(stream) + 1
          /\ proc = "exited"
          /\ sink[Len(sink)] = CompletionMarker(returncode)
          /\ pc = "done"
    /\ pc = "done" => (MarkerPositions # {} /\ returned = <<script_names>>)
    /\ returned # <<>> => pc = "done"

\* C5: there is never more than one completion line; it is the last entry of
\* the sink, after every line of the process, written only once the process
\* has exited and carrying its exit status; the names are returned with it;
\* and once the process has exited, a classifier that is not cancelled
\* reaches that end.
C5_NormalCompletion ==
    /\ []CompletionSafety
    /\ (proc = "exited") ~> (pc \in {"done", "cancelled"})

\* C5 witness: a run over at least two lines has completed with exit status 1.
C5_Witness ==
    /\ pc = "done"
    /\ pos >= 2
    /\ returncode = 1
    /\ sink[Len(sink)] = <<"\n", "Process finished with code ", "1">>
    /\ returned = <<script_names>>

Terminated == proc = "exited" /\ returncode \in SignalCodes

\* C6 as stated: after the process was terminated, or the caller cancelled,
\* the sink holds no completion line.
C6_NoMarkerAfterTerminationOrCancel ==
    (Terminated \/ pc = "cancelled") => MarkerPositions = {}

\* C6 as amended: once the caller has cancelled, the classifier has written no
\* completion line and returned nothing, and it never does anything more; a
\* terminated process, however, ends the line sequence and the run completes
\* normally, its completion line carrying the negative signal number.
C6_CancelLeavesNoMarker ==
    /\ [](pc = "cancelled" => (MarkerPositions = {} /\ returned = <<>>))
    /\ []((Terminated /\ pc = "done") =>
            sink[Len(sink)] \in { CompletionMarker(c) : c \in SignalCodes })
    /\ [][pc = "cancelled" =>
            /\ pc' = "cancelled"
            /\ UNCHANGED <<sink, script_names, last_line, returned>>]_vars

\* C6 witness: the coroutine was cancelled while waiting for the exit of a
\* process whose output it had read to the end.
C6_Witness ==
    /\ pc = "cancelled"
    /\ proc = "exited"
    /\ pos = Len(stream)
    /\ Len(sink) >= 2

----------------------------------------------------------------------------
(* Properties of the parser and the report *)

\* number of ports of a parsed host whose state is in the set S
PortsWithState(host, S) ==
    Cardinality({ i \in 1..Len(host.ports) : host.ports[i].state \in S })

NamedStates == { <<"o", "p", "e", "n">>, <<"c", "l", "o", "s", "e", "d">>, <<"f", "i", "l", "t", "e", "r", "e", "d">> }

\* C7: for every parsed host the four counters add up to the number of ports,
\* each port is counted in the bucket of its state ("other" for any state
\* that is not open, closed or filtered), and the counters are all zero
\* exactly when the host has no ports.
C7_PortStatsMatchPorts ==
    \A i \in 1..Len(hosts) :
        LET h == hosts[i]
            s == h.port_stats
        IN  /\ s.open = PortsWithState(h, { <<"o", "p", "e", "n">> })
            /\ s.closed = PortsWithState(h, { <<"c", "l", "o", "s", "e", "d">> })
            /\ s.filtered = PortsWithState(h, { <<"f", "i", "l", "t", "e", "r", "e", "d">> })
            /\ s.other = Len(h.ports) - PortsWithState(h, NamedStates)
            /\ s.open + s.closed + s.filtered + s.other = Len(h.ports)
            /\ (s = ZeroStats) <=> (h.ports = <<>>)

\* C7 witness: a parsed host with two ports, one open and one in a state that
\* is none of open, closed, filtered.
C7_Witness ==
    /\ pstate = "ready"
    /\ \E i \in 1..Len(hosts) :
          /\ Len(hosts[i].ports) = 2
          /\ hosts[i].port_stats.open = 1
          /\ hosts[i].port_stats.other = 1
          /\ hosts[i].ports[2].state = <<"o", "p", "e", "n", "|", "f", "i", "l", "t", "e", "r", "e", "d">>

\* C8: constructing the parser on a well-formed document never fails.
C8_ParseNeverRaises == WellFormed(xml_doc) => pstate # "failed"

\* C9: generate_report on a parsed model never raises while rendering.
C9_RenderNeverRaises == report.exc # "ValueError"

\* position, in the report text, of the time that follows "Generated: "
GeneratedAt ==
    Len(Join(<< DoubleRule, <<"NMAP SCAN REPORT">>, DoubleRule >>)) + 3

\* an outcome of generate_report decided by the rendering alone
Rendered(outcome) == outcome.exc \in {"", "ValueError"}

\* C10 as stated: two renderings of the same model give the same text.
C10_RenderByteIdentical ==
    (previous.exc = "" /\ report.exc = "") => previous.text = report.text

\* C10 as amended: two renderings of the same model either both raise or both
\* return text, and the two texts are identical except for the time on the
\* "Generated:" line, which is the clock second of the rendering (so that two
\* renderings within one second are byte-identical).
C10_RenderSameButTimestamp ==
    /\ report.exc = "" =>
          report.text[GeneratedAt] \in { Strftime(t)[1] : t \in 0..clock }
    /\ (Rendered(previous) /\ Rendered(report)) =>
          /\ previous.exc = report.exc
          /\ Len(previous.text) = Len(report.text)
          /\ \A i \in 1..Len(report.text) :
                i # GeneratedAt => previous.text[i] = report.text[i]

\* C10 witness: a model with a host has been rendered twice, in different
\* seconds, and the two texts differ.
C10_Witness ==
    /\ Len(hosts) >= 1
    /\ previous.exc = ""
    /\ report.exc = ""
    /\ previous.text # report.text

\* s occurs in t as a run of consecutive elements
Infix(s, t) ==
    \E k \in 0..(Len(t) - Len(s)) : \A j \in 1..Len(s) : t[k + j] = s[j]

\* the place of the k-th of ports when they are put in ascending order of
\* port number, ports of one number staying in their order
Rank(ports, k) ==
    Cardinality({ m \in 1..Len(ports) :
                    \/ IntOf(ports[m].portid) < IntOf(ports[k].portid)
                    \/ /\ IntOf(ports[m].portid) = IntOf(ports[k].portid)
                       /\ m <= k })

\* the port elements of the i-th host element of the document
DocumentPorts(i) ==
    LET host_elem == FindAll(xml_doc.root, "host")[i]
    IN  IF HasChild(host_elem, "ports")
        THEN FindAll(Find(host_elem, "ports"), "port")
        ELSE <<>>

\* C11: in every rendered report, the open-ports section of every host is
\* absent when the host has no open port and otherwise is the heading with
\* the count followed by exactly one line per open port, the lines in
\* non-decreasing order of numeric port number and ports of one number in
\* document order; the section is part of the report text; and the stored
\* ports of every host are, before and after rendering, its port elements in
\* document order.
C11_OpenPortsListed ==
    /\ report.exc = "" =>
          \A i \in 1..Len(hosts) :
              LET open == SelectSeq(hosts[i].ports,
                                    LAMBDA p : p.state = <<"o", "p", "e", "n">>)
                  section == OpenSection(hosts[i])
              IN  /\ open = <<>> => section = <<>>
                  /\ open # <<>> =>
                        /\ Len(section) = Len(open) + 1
                        /\ section[1] = <<"\nOPEN PORTS (", ToString(Len(open)), "):">>
                        /\ \A k \in 1..Len(open) :
                              section[1 + Rank(open, k)] = FormatPort(open[k])
                        /\ Infix(Join(section), report.text)
    /\ pstate = "ready" =>
          \A i \in 1..Len(hosts) :
              hosts[i].ports = [j \in 1..Len(DocumentPorts(i)) |->
                                   ParsePort(DocumentPorts(i)[j])]

\* C11 witness: a report has been rendered for a host with three open ports
\* that are stored out of numeric order, two of them of one number.
C11_Witness ==
    /\ report.exc = ""
    /\ \E i \in 1..Len(hosts) :
          LET open == SelectSeq(hosts[i].ports,
                                LAMBDA p : p.state = <<"o", "p", "e", "n">>)
          IN  /\ Len(open) = 3
              /\ Len(hosts[i].ports) > 3
              /\ \E a, b \in 1..3 :
                    a < b /\ IntOf(open[a].portid) > IntOf(open[b].portid)
              /\ \E a, b \in 1..3 :
                    /\ a < b
                    /\ IntOf(open[a].portid) = IntOf(open[b].portid)
                    /\ open[a] # open[b]

\* C12: in every rendered report, the filtered-ports section of a host with
\* F filtered ports is absent when F = 0 and otherwise is the heading with
\* the count F, then min(F, 10) port lines, which are the ports of the 10
\* lowest places in ascending order of numeric port number, and then, if and
\* only if F > 10, one line "... and N more filtered ports" with N = F - 10;
\* the section is part of the report text.
C12_FilteredPortsListed ==
    report.exc = "" =>
      \A i \in 1..Len(hosts) :
          LET filtered == SelectSeq(hosts[i].ports,
                             LAMBDA p : p.state = <<"f", "i", "l", "t", "e", "r", "e", "d">>)
              F == Len(filtered)
              section == FilteredSection(hosts[i])
          IN  /\ F = 0 => section = <<>>
              /\ F > 0 =>
                    /\ section[1] = <<"\nFILTERED PORTS (", ToString(F), "):">>
                    /\ \A k \in 1..F :
                          Rank(filtered, k) <= 10 =>
                            section[1 + Rank(filtered, k)] = FormatPort(filtered[k])
                    /\ F <= 10 => Len(section) = 1 + F
                    /\ F > 10 =>
                          /\ Len(section) = 12
                          /\ section[12] = <<"  ... and ", ToString(F - 10),
                                              " more filtered ports">>
                    /\ \A j \in 1..Len(section) :
                          section[j][1] = "  ... and " <=> (F > 10 /\ j = 12)
                    /\ Infix(Join(section), report.text)

\* C12 witness: a report has been rendered for a host with more than ten
\* filtered ports, one of the first ten of which, in document order, has a
\* number too high to be listed.
C12_Witness ==
    /\ report.exc = ""
    /\ \E i \in 1..Len(hosts) :
          LET filtered == SelectSeq(hosts[i].ports,
                             LAMBDA p : p.state = <<"f", "i", "l", "t", "e", "r", "e", "d">>)
          IN  /\ Len(filtered) > 10
              /\ \E k \in 1..10 : Rank(filtered, k) > 10

\* C13: in every rendered report, the closed-ports section of a host with C
\* closed ports is absent when C = 0; when 1 <= C <= 10 it is the heading
\* with the count C followed by one line per closed port in ascending order
\* of numeric port number; when C > 10 it is the single line
\* "CLOSED PORTS: C ports closed" and no line of the host is the line of a
\* closed port; the section is part of the report text.
C13_ClosedPortsPolicy ==
    report.exc = "" =>
      \A i \in 1..Len(hosts) :
          LET closed == SelectSeq(hosts[i].ports,
                           LAMBDA p : p.state = <<"c", "l", "o", "s", "e", "d">>)
              C == Len(closed)
              section == ClosedSection(hosts[i])
              lines == FormatHost(hosts[i], i)
          IN  /\ C = 0 => section = <<>>
              /\ (1 <= C /\ C <= 10) =>
                    /\ Len(section) = 1 + C
                    /\ section[1] = <<"\nCLOSED PORTS (", ToString(C), "):">>
                    /\ \A k \in 1..C :
                          section[1 + Rank(closed, k)] = FormatPort(closed[k])
              /\ C > 10 =>
                    /\ section = << <<"\nCLOSED PORTS: ", ToString(C), " ports closed">> >>
                    /\ \A j \in 1..Len(lines), k \in 1..C :
                          lines[j] # FormatPort(closed[k])
              /\ Infix(Join(section), report.text)

\* C13 witness: a report has been rendered for a host with more than ten
\* closed ports.
C13_Witness ==
    /\ report.exc = ""
    /\ \E i \in 1..Len(hosts) :
          Len(SelectSeq(hosts[i].ports,
                        LAMBDA p : p.state = <<"c", "l", "o", "s", "e", "d">>)) > 10

\* the osmatch elements of the i-th host element of the document
DocumentOsMatches(i) ==
    LET host_elem == FindAll(xml_doc.root, "host")[i]
    IN  IF HasChild(host_elem, "os")
        THEN FindAll(Find(host_elem, "os"), "osmatch")
        ELSE <<>>

\* the line of the report that shows one stored OS match
OsLine(os_match) ==
    <<"  ">> \o os_match.name \o <<" (">> \o os_match.accuracy \o <<"%)">>

\* C14: a parsed host stores one OS match per osmatch element of its host
\* element, in document order, whatever their number; and in every rendered
\* report the OS section of a host with n stored matches is absent when
\* n = 0 and otherwise is the heading followed by min(n, 3) lines, the j-th
\* line showing the j-th stored match, and is part of the report text.
C14_OsMatchesStoredAndTruncated ==
    /\ pstate = "ready" =>
          \A i \in 1..Len(hosts) :
              LET matches == DocumentOsMatches(i)
              IN  /\ Len(hosts[i].os) = Len(matches)
                  /\ \A j \in 1..Len(matches) :
                        /\ hosts[i].os[j].name
                             = Get(matches[j], "name", <<"U", "n", "k", "n", "o", "w", "n">>)
                        /\ hosts[i].os[j].accuracy
                             = Get(matches[j], "accuracy", <<"0">>)
    /\ report.exc = "" =>
          \A i \in 1..Len(hosts) :
              LET n == Len(hosts[i].os)
                  section == OsSection(hosts[i])
              IN  /\ n = 0 => section = <<>>
                  /\ n > 0 =>
                        /\ Len(section) = 1 + (IF n < 3 THEN n ELSE 3)
                        /\ section[1] = <<"\nOS DETECTION:">>
                        /\ \A j \in 2..Len(section) :
                              section[j] = OsLine(hosts[i].os[j - 1])
                  /\ Len(section) <= 4
                  /\ Infix(Join(section), report.text)

\* C14 witness: a report has been rendered for a host that stores more than
\* three OS matches, the fourth with an accuracy above that of the first.
C14_Witness ==
    /\ report.exc = ""
    /\ \E i \in 1..Len(hosts) :
          /\ Len(hosts[i].os) > 3
          /\ IsInt(hosts[i].os[1].accuracy)
          /\ IsInt(hosts[i].os[4].accuracy)
          /\ IntOf(hosts[i].os[4].accuracy) > IntOf(hosts[i].os[1].accuracy)

\* C15: constructing the parser on an empty file or on a file that is not
\* XML fails with ParseError, the error of a malformed document, and leaves
\* no root, no hosts and no report; constructing it on a well-formed document
\* without host elements succeeds with an empty host list, never ends in
\* ParseError, rendering it never raises, and every report rendered from it
\* has the line "Total Hosts: 0".
C15_MalformedVersusEmpty ==
    /\ xml_doc.kind \in {"empty", "not xml"} =>
          /\ pstate = "failed"
          /\ error = "ParseError"
          /\ root = El("", NoAttrib, <<>>)
          /\ hosts = <<>>
          /\ report = NoOutcome
    /\ (xml_doc.kind = "xml" /\ FindAll(xml_doc.root, "host") = <<>>) =>
          /\ pstate = "ready"
          /\ error = "none"
          /\ hosts = <<>>
          /\ report.exc # "ValueError"
          /\ report.exc = "" =>
                Infix(<<"\n", "Total Hosts: ", "0", "\n">>, report.text)

\* C15 witness: a report has been rendered from a well-formed document
\* without host elements.
C15_Witness ==
    /\ xml_doc.kind = "xml"
    /\ FindAll(xml_doc.root, "host") = <<>>
    /\ report.exc = ""
    /\ report.text # <<>>

\* the host elements of the document
DocumentHosts == FindAll(xml_doc.root, "host")

\* C16: on a well-formed document, a host element without ports element
\* never makes the construction fail (a failure comes from a host element
\* that has a ports element); and when the construction succeeds there is
\* one stored host per host element, in document order, the host of an
\* element without ports element having no ports, the counters open 0,
\* closed 0, filtered 0, other 0 and no extraports entry, and every host
\* after it being the host parsed from its own element.
C16_MissingPortsElement ==
    /\ (pstate = "failed" /\ error = "ValueError") =>
          \E j \in 1..Len(DocumentHosts) :
              /\ HasChild(DocumentHosts[j], "ports")
              /\ ParseHostRaises(DocumentHosts[j])
    /\ pstate = "ready" =>
          /\ Len(hosts) = Len(DocumentHosts)
          /\ \A i \in 1..Len(DocumentHosts) :
                ~HasChild(DocumentHosts[i], "ports") =>
                  /\ hosts[i].ports = <<>>
                  /\ hosts[i].port_stats
                       = [open |-> 0, closed |-> 0, filtered |-> 0, other |-> 0]
                  /\ "extraports" \notin DOMAIN hosts[i]
                  /\ \A j \in (i + 1)..Len(DocumentHosts) :
                        hosts[j] = ParseHost(DocumentHosts[j])

\* C16 witness: a document has been parsed whose first host element has no
\* ports element and whose second host element has a port.
C16_Witness ==
    /\ pstate = "ready"
    /\ Len(DocumentHosts) = 2
    /\ ~HasChild(DocumentHosts[1], "ports")
    /\ Len(hosts) = 2
    /\ hosts[1].ports = <<>>
    /\ hosts[2].ports # <<>>

\* the exception the parser raises on a malformed document
MalformedDocument == "ParseError"

\* C17: when the write of the rendered report fails, the caller receives an
\* I/O failure, which is not the failure it receives for a malformed
\* document, and the report text that had been rendered: from
\* generate_report (first conjunct) and from _export_parsed_xml (second
\* conjunct, where the write fails exactly when the document parses and
\* renders and the destination cannot be written).
C17_WriteFailureKeepsText ==
    /\ report.exc = "OSError" =>
          /\ report.exc # MalformedDocument
          /\ report.text = BuildReport(xml_file, root, hosts, clock)
    /\ \A output_path \in ExportPaths :
          ( /\ export = ExportParsedXml(xml_doc, output_path)
            /\ WellFormed(xml_doc)
            /\ ~ParseXmlRaises(xml_doc.root)
            /\ ~BuildReportRaises(ParseXml(xml_doc.root))
            /\ ~Writable(output_path) ) =>
              /\ export.exc = "OSError"
              /\ export.exc
                   # ExportParsedXml([kind |-> "empty", root |-> El("", NoAttrib, <<>>)],
                                     output_path).exc
              /\ export.value
                   \in { BuildReport(xml_file, xml_doc.root,
                                     ParseXml(xml_doc.root), t) : t \in 0..clock }

\* C18: whenever the export modal is on screen, a scan has written the
\* recorded output file.
C18_ExportOnlyAfterScan ==
    export_modal # <<>> => export_modal[1] \in files

====
